---------------------------- MODULE Spec2Model ----------------------------
(***************************************************************************)
(* A state-machine model of src/core/modules/memory/memory_tools.cpp:      *)
(* CPointer (raw memory access by numeric address) and CFunction (dynamic  *)
(* calls through the shared dyncall VM g_pCallVM, and hooks).              *)
(*                                                                         *)
(* Two specifications share the module:                                    *)
(*   SpecMem   the CPointer operations over a small byte-addressed memory  *)
(*   SpecCall  CFunction::Call / CallTrampoline / AddHook / RemoveHook      *)
(***************************************************************************)
EXTENDS Integers, Sequences, FiniteSets, TLC

VARIABLES
    mem,        \* process memory: address -> byte
    last,       \* outcome of the most recent CPointer operation
    stored,     \* the SetPtr that immediately preceded (history), or NoStore
    nops,       \* number of CPointer operations performed so far
    hooks,      \* g_pHookMngr: hooked address -> CHook (its m_pTrampoline)
    nAlloc,     \* number of trampolines the hook manager has allocated
    cbs,        \* g_mapCallbacks: hook -> hook type -> list of callables
    vm,         \* g_pCallVM: the one shared call-construction state
    stack,      \* CFunction::Call activations in flight, innermost last
    native,     \* native calls: how many were made, and what the latest received
    ev,         \* the most recent step of a CFunction operation
    nreq        \* number of CFunction operations requested so far

memVars  == <<mem, last, stored, nops>>
callVars == <<hooks, nAlloc, cbs, vm, stack, native, ev, nreq>>
vars     == <<mem, last, stored, nops, hooks, nAlloc, cbs, vm, stack, native, ev, nreq>>

---------------------------------------------------------------------------
(* Bounds of the model                                                     *)

MemSize  == 5   \* addresses 0 .. MemSize-1; address 0 is NULL and unmapped
WordSize == 2   \* bytes in a machine word (unsigned long), scaled down
MaxOff   == 1   \* offsets 0 .. MaxOff
MaxLen   == 2   \* byte counts 0 .. MaxLen, search ranges 0 .. MaxLen+1
MaxText  == 1   \* C strings of at most MaxText characters
MaxPat   == 2   \* search patterns of at most MaxPat bytes
MaxOps   == 2   \* CPointer operations per behaviour
MaxReq   == 3   \* CFunction operations requested per behaviour
MaxDepth == 2   \* Call activations in flight at once

(* Program constant                                                        *)

WILDCARD == 42  \* '\x2A'

---------------------------------------------------------------------------
(* Memory                                                                  *)

Addrs   == 0 .. (MemSize - 1)
Mapped  == 1 .. (MemSize - 1)
Offsets == 0 .. MaxOff
Lens    == 0 .. MaxLen

SeqsUpTo(S, n) == UNION {[1..k -> S] : k \in 0..n}

TextBytes == {WILDCARD, 7}
Texts     == SeqsUpTo(TextBytes, MaxText)
Patterns  == SeqsUpTo(TextBytes, MaxPat)

Range(a, n) == a .. (a + n - 1)

\* A read of an address outside the modelled memory yields 0 here; every
\* operation that touches such an address is reported as a fault instead.
Rd(m, x) == IF x \in DOMAIN m THEN m[x] ELSE 0

Faults(S) == ~(S \subseteq Mapped)

RECURSIVE Pow256(_)
Pow256(k) == IF k = 0 THEN 1 ELSE 256 * Pow256(k - 1)

\* *(unsigned long *) x, little endian
ReadWord(m, x) ==
    LET RECURSIVE Sum(_)
        Sum(k) == IF k = WordSize THEN 0 ELSE Rd(m, x + k) * Pow256(k) + Sum(k + 1)
    IN  Sum(0)

\* *(unsigned long *) x = v
WriteWord(m, x, v) ==
    [y \in DOMAIN m |->
        IF y \in Range(x, WordSize) THEN (v \div Pow256(y - x)) % 256 ELSE m[y]]

\* strcpy(x, text): the characters and the terminating NUL
WriteStr(m, x, text) ==
    [y \in DOMAIN m |->
        IF y \in Range(x, Len(text)) THEN text[y - x + 1]
        ELSE IF y = x + Len(text) THEN 0
        ELSE m[y]]

\* strlen at x; a string that runs out of the modelled memory ends there
RECURSIVE StrLen(_, _)
StrLen(m, x) == IF x \notin DOMAIN m \/ m[x] = 0 THEN 0 ELSE 1 + StrLen(m, x + 1)

ReadStr(m, x) == [k \in 1 .. StrLen(m, x) |-> m[x + k - 1]]

\* memcpy / memmove of n bytes from s to d, read from the memory as it was
CopyBytes(m, d, s, n) ==
    [y \in DOMAIN m |-> IF y \in Range(d, n) THEN Rd(m, s + (y - d)) ELSE m[y]]

\* memcmp: the sign of the first differing byte
RECURSIVE MemCmp(_, _, _, _)
MemCmp(m, x, y, n) ==
    IF n = 0 THEN 0
    ELSE IF Rd(m, x) < Rd(m, y) THEN -1
    ELSE IF Rd(m, x) > Rd(m, y) THEN 1
    ELSE MemCmp(m, x + 1, y + 1, n - 1)

---------------------------------------------------------------------------
(* Outcome records of CPointer operations                                  *)

NoStore == [a |-> 0, off |-> 0, p |-> 0, valid |-> FALSE]

Outcome(op, a, b, off, n, text, status, ret, touched) ==
    [op |-> op, a |-> a, b |-> b, off |-> off, n |-> n, text |-> text,
     status |-> status, msg |-> "", ret |-> ret, touched |-> touched]

NoOutcome == Outcome("none", 0, 0, 0, 0, <<>>, "ok", 0, {})

\* BOOST_RAISE_EXCEPTION(PyExc_ValueError, msg): nothing was touched
Raise(op, a, b, off, n, text, msg) ==
    [Outcome(op, a, b, off, n, text, "ValueError", 0, {}) EXCEPT !.msg = msg]

\* The step shared by all CPointer operations: the operation either
\* completes (memory becomes m2), raises, or faults on an unmapped address
\* (memory is left as it was).
Finish(out, m2) ==
    /\ nops < MaxOps
    /\ nops' = nops + 1
    /\ last' = IF out.status = "ok" /\ Faults(out.touched)
               THEN [out EXCEPT !.status = "fault", !.ret = 0]
               ELSE out
    /\ mem' = IF out.status = "ok" /\ ~Faults(out.touched) THEN m2 ELSE mem
    /\ UNCHANGED callVars

IsValid(a) == a # 0

---------------------------------------------------------------------------
(* CPointer operations                                                     *)

SetStringPtrOutcome(m, a, text, off) ==
    IF ~IsValid(a) THEN Raise("SetStringPtr", a, 0, off, 0, text, "Pointer is NULL.")
    ELSE LET tgt == ReadWord(m, a + off)
             rd  == Range(a + off, WordSize)
         IN  Outcome("SetStringPtr", a, tgt, off, 0, text, "ok", 0,
                     IF Faults(rd) THEN rd ELSE rd \cup Range(tgt, Len(text) + 1))

SetStringPtr(a, text, off) ==
    /\ Finish(SetStringPtrOutcome(mem, a, text, off),
              WriteStr(mem, ReadWord(mem, a + off), text))
    /\ stored' = NoStore

GetStringArrayOutcome(m, a, off) ==
    IF ~IsValid(a) THEN Raise("GetStringArray", a, 0, off, 0, <<>>, "Pointer is NULL.")
    ELSE Outcome("GetStringArray", a, 0, off, 0, ReadStr(m, a + off), "ok",
                 a + off, Range(a + off, StrLen(m, a + off) + 1))

GetStringArray(a, off) ==
    /\ Finish(GetStringArrayOutcome(mem, a, off), mem)
    /\ stored' = NoStore

SetStringArrayOutcome(m, a, text, off) ==
    IF ~IsValid(a) THEN Raise("SetStringArray", a, 0, off, 0, text, "Pointer is NULL.")
    ELSE Outcome("SetStringArray", a, 0, off, 0, text, "ok", 0,
                 Range(a + off, Len(text) + 1))

SetStringArray(a, text, off) ==
    /\ Finish(SetStringArrayOutcome(mem, a, text, off), WriteStr(mem, a + off, text))
    /\ stored' = NoStore

GetPtrOutcome(m, a, off) ==
    IF ~IsValid(a) THEN Raise("GetPtr", a, 0, off, 0, <<>>, "Pointer is NULL.")
    ELSE Outcome("GetPtr", a, 0, off, 0, <<>>, "ok", ReadWord(m, a + off),
                 Range(a + off, WordSize))

GetPtr(a, off) ==
    /\ Finish(GetPtrOutcome(mem, a, off), mem)
    /\ stored' = stored

\* The address SetPtr writes to: the offset is not used.
SetPtrTarget(a, off) == a

SetPtrOutcome(m, a, p, off) ==
    IF ~IsValid(a) THEN Raise("SetPtr", a, p, off, 0, <<>>, "Pointer is NULL.")
    ELSE Outcome("SetPtr", a, p, off, 0, <<>>, "ok", 0,
                 Range(SetPtrTarget(a, off), WordSize))

SetPtr(a, p, off) ==
    /\ Finish(SetPtrOutcome(mem, a, p, off), WriteWord(mem, SetPtrTarget(a, off), p))
    /\ stored' = IF last'.status = "ok"
                 THEN [a |-> a, off |-> off, p |-> p, valid |-> TRUE]
                 ELSE NoStore

CompareOutcome(m, a, other, n) ==
    IF a = 0 \/ other = 0 THEN Raise("Compare", a, other, 0, n, <<>>, "At least one pointer is NULL.")
    ELSE Outcome("Compare", a, other, 0, n, <<>>, "ok", MemCmp(m, a, other, n),
                 Range(a, n) \cup Range(other, n))

Compare(a, other, n) ==
    /\ Finish(CompareOutcome(mem, a, other, n), mem)
    /\ stored' = NoStore

\* Addresses and lengths stay far below the width of unsigned long, so the
\* sums do not wrap.
IsOverlapping(a, other, n) ==
    IF a <= other THEN a + n > other ELSE other + n > a

\* The inner for loop of SearchBytes at one base: the index it stops at.
RECURSIVE MatchStop(_, _, _, _)
MatchStop(m, base, pat, i) ==
    IF i >= Len(pat) THEN i
    ELSE IF Rd(m, base + i) = WILDCARD THEN MatchStop(m, base, pat, i + 1)
    ELSE IF pat[i + 1] # Rd(m, base + i) THEN i
    ELSE MatchStop(m, base, pat, i + 1)

\* The while loop of SearchBytes: the matching base, or 0 (NULL).
RECURSIVE Scan(_, _, _, _)
Scan(m, base, end, pat) ==
    IF ~(base < end) THEN 0
    ELSE IF MatchStop(m, base, pat, 0) = Len(pat) THEN base
    ELSE Scan(m, base + 1, end, pat)

\* The bytes of memory the while loop reads.
RECURSIVE ScanTouched(_, _, _, _)
ScanTouched(m, base, end, pat) ==
    IF ~(base < end) THEN {}
    ELSE LET stop == MatchStop(m, base, pat, 0)
         IN  IF stop = Len(pat) THEN Range(base, Len(pat))
             ELSE Range(base, stop + 1) \cup ScanTouched(m, base + 1, end, pat)

\* Patterns hold no NUL byte (PyArg_Parse "y" rejects those).  For the empty
\* pattern iByteLen - 1 wraps and end is a + n + 1; the first base matches.
SearchBytesOutcome(m, a, pat, n) ==
    IF a = 0 THEN Raise("SearchBytes", a, 0, 0, n, pat, "Pointer is NULL.")
    ELSE IF n < Len(pat) THEN Raise("SearchBytes", a, 0, 0, n, pat, "Search range is too small.")
    ELSE LET end == a + n - (Len(pat) - 1)
         IN  Outcome("SearchBytes", a, 0, 0, n, pat, "ok",
                     Scan(m, a, end, pat), ScanTouched(m, a, end, pat))

SearchBytes(a, pat, n) ==
    /\ Finish(SearchBytesOutcome(mem, a, pat, n), mem)
    /\ stored' = NoStore

\* The null test of Copy: raises when this is 0 or when ulDest is not 0.
CopyNullTest(a, dest) == a = 0 \/ dest # 0

CopyOutcome(m, a, dest, n) ==
    IF CopyNullTest(a, dest) THEN Raise("Copy", a, dest, 0, n, <<>>, "At least one pointer is NULL.")
    ELSE IF IsOverlapping(a, dest, n) THEN Raise("Copy", a, dest, 0, n, <<>>, "Pointers are overlapping!")
    ELSE Outcome("Copy", a, dest, 0, n, <<>>, "ok", 0,
                 Range(dest, n) \cup Range(a, n))

Copy(a, dest, n) ==
    /\ Finish(CopyOutcome(mem, a, dest, n), CopyBytes(mem, dest, a, n))
    /\ stored' = NoStore

MoveOutcome(m, a, dest, n) ==
    IF a = 0 \/ dest = 0 THEN Raise("Move", a, dest, 0, n, <<>>, "At least one pointer is NULL.")
    ELSE Outcome("Move", a, dest, 0, n, <<>>, "ok", 0,
                 Range(dest, n) \cup Range(a, n))

Move(a, dest, n) ==
    /\ Finish(MoveOutcome(mem, a, dest, n), CopyBytes(mem, dest, a, n))
    /\ stored' = NoStore

GetVirtualFuncOutcome(m, a, idx) ==
    IF ~IsValid(a) THEN Raise("GetVirtualFunc", a, 0, 0, idx, <<>>, "Pointer is NULL.")
    ELSE LET vtable == ReadWord(m, a)
             rd     == Range(a, WordSize)
         IN  IF Faults(rd) \/ vtable = 0
             THEN Outcome("GetVirtualFunc", a, vtable, 0, idx, <<>>, "ok", 0, rd)
             ELSE Outcome("GetVirtualFunc", a, vtable, 0, idx, <<>>, "ok",
                          ReadWord(m, vtable + idx * WordSize),
                          rd \cup Range(vtable + idx * WordSize, WordSize))

GetVirtualFunc(a, idx) ==
    /\ Finish(GetVirtualFuncOutcome(mem, a, idx), mem)
    /\ stored' = NoStore

---------------------------------------------------------------------------
(* CFunction: descriptors, the shared call VM, the hook manager            *)

CFunction(addr, conv, tags, ret) ==
    [addr |-> addr, conv |-> conv, tags |-> tags, ret |-> ret]

\* Argument_t / ReturnType_t values the two switches know; "?" stands for a
\* value outside the enumeration.
ArgTags == {"i", "p"}
RetTags == {"v", "i", "p"}

\* Entry points of native code, and where the hook manager puts trampolines.
CodeAddrs == {10, 20}
TrampolineAt(k) == 100 + k

Funcs ==
    { CFunction(0,  "cdecl",    <<"i">>,      "i"),
      CFunction(10, "cdecl",    <<"i", "p">>, "i"),
      CFunction(20, "thiscall", <<"p">>,      "v"),
      CFunction(20, "cdecl",    <<"i", "?">>, "i"),
      CFunction(10, "stdcall",  <<>>,         "?") }

ArgLists  == { <<>>, <<1>>, <<1, 2>>, <<2, 1>>, <<2, 2, 1>> }
HookTypes == {"PRE", "POST"}
Callables == {"c1", "c2"}

EmptyVM == [mode |-> "default", args |-> <<>>]

Ev(op, f, args, t, cb, status, msg, value) ==
    [op |-> op, f |-> f, args |-> args, t |-> t, cb |-> cb,
     status |-> status, msg |-> msg, value |-> value]

NoFunc == CFunction(0, "none", <<>>, "v")
NoEv   == Ev("none", NoFunc, <<>>, "none", "none", "ok", "", <<>>)

NoNative == [n |-> 0, target |-> 0, mode |-> "default", args |-> <<>>,
             f |-> NoFunc, own |-> <<>>]

\* What dcArgInt / dcArgPointer leave in the VM for argument i of a call.
Marshalled(tags, args, i) == <<tags[i], args[i]>>

MarshalAll(tags, args) == [i \in 1 .. Len(args) |-> Marshalled(tags, args, i)]

\* The value a native function computes, as a term over what it received.
NativeResult(target, received) == <<target, received>>

Top == stack[Len(stack)]

\* CHookManager::FindHook
FindHook(a) == IF a \in DOMAIN hooks THEN hooks[a] ELSE [trampoline |-> 0, handlers |-> {}]

Hooked(a) == a \in DOMAIN hooks

\* CHookManager::HookFunction: the hook of a, created when there is none.
HookFunction(a) ==
    IF Hooked(a) THEN hooks
    ELSE hooks @@ (a :> [trampoline |-> TrampolineAt(nAlloc), handlers |-> {}])

\* The dispatcher installed at a hooked address runs the callables of every
\* hook type whose handler is registered.
RunsCallbacks(a) ==
    /\ Hooked(a)
    /\ \E t \in hooks[a].handlers : cbs[a][t] # <<>>

\* Python code can run, and so start another operation, at top level, while
\* an argument of a call in flight is being extracted, and inside a native
\* call whose target dispatches to hook callbacks.
UserCodeRuns ==
    \/ stack = <<>>
    \/ /\ stack # <<>>
       /\ \/ Top.phase = "marshal" /\ Top.i < Len(Top.args)
          \/ Top.phase = "native" /\ RunsCallbacks(Top.f.addr)

---------------------------------------------------------------------------
(* CFunction::Call, in the steps another call can come between            *)

\* CallEnter with the VM reset before the argument count is compared.
CallEnterResetFirst(f, orig, args, via) ==
    IF ~IsValid(f.addr)
    THEN /\ ev' = Ev(via, orig, args, "none", "none", "ValueError",
                     "Function pointer is NULL.", <<>>)
         /\ UNCHANGED <<vm, stack>>
    ELSE IF Len(args) # Len(f.tags)
    THEN /\ ev' = Ev(via, orig, args, "none", "none", "ValueError",
                     "Number of passed arguments is not equal to the required number.", <<>>)
         /\ vm' = [mode |-> f.conv, args |-> <<>>]
         /\ UNCHANGED stack
    ELSE /\ vm' = [mode |-> f.conv, args |-> <<>>]
         /\ stack' = Append(stack, [f |-> f, orig |-> orig, args |-> args, via |-> via,
                                    i |-> 0, phase |-> "marshal", received |-> <<>>])
         /\ ev' = Ev(via, orig, args, "none", "none", "ok", "", <<>>)

\* Lines 205-213: the two checks, then dcReset and dcMode.
CallEnter(f, orig, args, via) ==
    IF ~IsValid(f.addr)
    THEN /\ ev' = Ev(via, orig, args, "none", "none", "ValueError",
                     "Function pointer is NULL.", <<>>)
         /\ UNCHANGED <<vm, stack>>
    ELSE IF Len(args) # Len(f.tags)
    THEN /\ ev' = Ev(via, orig, args, "none", "none", "ValueError",
                     "Number of passed arguments is not equal to the required number.", <<>>)
         /\ UNCHANGED <<vm, stack>>
    ELSE /\ vm' = [mode |-> f.conv, args |-> <<>>]
         /\ stack' = Append(stack, [f |-> f, orig |-> orig, args |-> args, via |-> via,
                                    i |-> 0, phase |-> "marshal", received |-> <<>>])
         /\ ev' = Ev(via, orig, args, "none", "none", "ok", "", <<>>)

Call(f, args) ==
    /\ UserCodeRuns
    /\ nreq < MaxReq
    /\ Len(stack) < MaxDepth
    /\ nreq' = nreq + 1
    /\ CallEnter(f, f, args, "Call")
    /\ UNCHANGED <<hooks, nAlloc, cbs, native>>
    /\ UNCHANGED memVars

\* TrampolineFunction that keeps the hooked address.
TrampolineFunctionHooked(f) == CFunction(f.addr, f.conv, f.tags, f.ret)

\* The function CallTrampoline delegates to.
TrampolineFunction(f) == CFunction(FindHook(f.addr).trampoline, f.conv, f.tags, f.ret)

CallTrampoline(f, args) ==
    /\ UserCodeRuns
    /\ nreq < MaxReq
    /\ Len(stack) < MaxDepth
    /\ nreq' = nreq + 1
    /\ IF ~IsValid(f.addr)
       THEN /\ ev' = Ev("CallTrampoline", f, args, "none", "none", "ValueError",
                        "Function pointer is NULL.", <<>>)
            /\ UNCHANGED <<vm, stack>>
       ELSE IF ~Hooked(f.addr)
       THEN /\ ev' = Ev("CallTrampoline", f, args, "none", "none", "ValueError",
                        "Function was not hooked.", <<>>)
            /\ UNCHANGED <<vm, stack>>
       ELSE CallEnter(TrampolineFunction(f), f, args, "CallTrampoline")
    /\ UNCHANGED <<hooks, nAlloc, cbs, native>>
    /\ UNCHANGED memVars

\* Lines 216-238, one iteration: extract argument i+1 and push it.
PushArg ==
    /\ stack # <<>>
    /\ Top.phase = "marshal"
    /\ Top.i < Len(Top.args)
    /\ LET fr == Top
           k  == fr.i + 1
       IN  IF fr.f.tags[k] \in ArgTags
           THEN /\ vm' = [vm EXCEPT !.args = Append(@, Marshalled(fr.f.tags, fr.args, k))]
                /\ stack' = [stack EXCEPT ![Len(stack)].i = k]
                /\ ev' = Ev("PushArg", fr.orig, fr.args, "none", "none", "ok", "", <<>>)
           ELSE /\ vm' = vm
                /\ stack' = SubSeq(stack, 1, Len(stack) - 1)
                /\ ev' = Ev("PushArg", fr.orig, fr.args, "none", "none", "ValueError",
                            "Unknown argument type.", <<>>)
    /\ UNCHANGED <<hooks, nAlloc, cbs, native, nreq>>
    /\ UNCHANGED memVars

\* Lines 241-260: dcCall<T>(g_pCallVM, m_ulAddr) hands the VM's convention and
\* arguments to the target.
Invoke ==
    /\ stack # <<>>
    /\ Top.phase = "marshal"
    /\ Top.i = Len(Top.args)
    /\ LET fr == Top
       IN  IF fr.f.ret \in RetTags
           THEN /\ native' = [n |-> native.n + 1, target |-> fr.f.addr,
                               mode |-> vm.mode, args |-> vm.args,
                               f |-> fr.f, own |-> fr.args]
                /\ stack' = [stack EXCEPT ![Len(stack)].phase = "native",
                                          ![Len(stack)].received = vm.args]
                /\ ev' = Ev("Invoke", fr.orig, fr.args, "none", "none", "ok", "", <<>>)
           ELSE /\ native' = native
                /\ stack' = SubSeq(stack, 1, Len(stack) - 1)
                /\ ev' = Ev("Invoke", fr.orig, fr.args, "none", "none", "TypeError",
                            "Unknown return type.", <<>>)
    /\ UNCHANGED <<hooks, nAlloc, cbs, vm, nreq>>
    /\ UNCHANGED memVars

\* The native call returns; Call wraps its result.
Return ==
    /\ stack # <<>>
    /\ Top.phase = "native"
    /\ LET fr == Top
       IN  /\ stack' = SubSeq(stack, 1, Len(stack) - 1)
           /\ ev' = Ev("Return", fr.orig, fr.args, "none", "none", "ok", "",
                       IF fr.f.ret = "v" THEN <<>>
                       ELSE NativeResult(fr.f.addr, fr.received))
    /\ UNCHANGED <<hooks, nAlloc, cbs, vm, native, nreq>>
    /\ UNCHANGED memVars

---------------------------------------------------------------------------
(* Hooks                                                                   *)

\* std::list::remove: every element equal to cb goes.
RemoveAll(list, cb) == SelectSeq(list, LAMBDA x : x # cb)

\* What AddHook does to the list of callables: push_back.
AddCallable(list, cb) == Append(list, cb)

AddHook(f, t, cb) ==
    /\ UserCodeRuns
    /\ nreq < MaxReq
    /\ nreq' = nreq + 1
    /\ IF ~IsValid(f.addr)
       THEN /\ ev' = Ev("AddHook", f, <<>>, t, cb, "ValueError",
                        "Function pointer is NULL.", <<>>)
            /\ UNCHANGED <<hooks, nAlloc, cbs>>
       ELSE /\ hooks' = [HookFunction(f.addr) EXCEPT ![f.addr].handlers = @ \cup {t}]
            /\ nAlloc' = IF Hooked(f.addr) THEN nAlloc ELSE nAlloc + 1
            /\ cbs' = [cbs EXCEPT ![f.addr][t] = AddCallable(@, cb)]
            /\ ev' = Ev("AddHook", f, <<>>, t, cb, "ok", "", cb)
    /\ UNCHANGED <<vm, stack, native>>
    /\ UNCHANGED memVars

\* RemoveHook that unhooks the function once both lists are empty.
RemoveHookUnhooks(f, t, cb) ==
    /\ UserCodeRuns
    /\ nreq < MaxReq
    /\ nreq' = nreq + 1
    /\ IF ~IsValid(f.addr)
       THEN /\ ev' = Ev("RemoveHook", f, <<>>, t, cb, "ValueError",
                        "Function pointer is NULL.", <<>>)
            /\ UNCHANGED <<hooks, nAlloc, cbs>>
       ELSE IF ~Hooked(f.addr)
       THEN /\ ev' = Ev("RemoveHook", f, <<>>, t, cb, "ok", "", <<>>)
            /\ UNCHANGED <<hooks, nAlloc, cbs>>
       ELSE /\ cbs' = [cbs EXCEPT ![f.addr][t] = RemoveAll(@, cb)]
            /\ ev' = Ev("RemoveHook", f, <<>>, t, cb, "ok", "", <<>>)
            /\ hooks' = IF \A u \in HookTypes : cbs'[f.addr][u] = <<>>
                        THEN [x \in DOMAIN hooks \ {f.addr} |-> hooks[x]]
                        ELSE hooks
            /\ UNCHANGED nAlloc
    /\ UNCHANGED <<vm, stack, native>>
    /\ UNCHANGED memVars

RemoveHook(f, t, cb) ==
    /\ UserCodeRuns
    /\ nreq < MaxReq
    /\ nreq' = nreq + 1
    /\ IF ~IsValid(f.addr)
       THEN /\ ev' = Ev("RemoveHook", f, <<>>, t, cb, "ValueError",
                        "Function pointer is NULL.", <<>>)
            /\ UNCHANGED <<hooks, nAlloc, cbs>>
       ELSE IF ~Hooked(f.addr)
       THEN /\ ev' = Ev("RemoveHook", f, <<>>, t, cb, "ok", "", <<>>)
            /\ UNCHANGED <<hooks, nAlloc, cbs>>
       ELSE /\ cbs' = [cbs EXCEPT ![f.addr][t] = RemoveAll(@, cb)]
            /\ ev' = Ev("RemoveHook", f, <<>>, t, cb, "ok", "", <<>>)
            /\ UNCHANGED <<hooks, nAlloc>>
    /\ UNCHANGED <<vm, stack, native>>
    /\ UNCHANGED memVars

---------------------------------------------------------------------------
(* Specifications                                                          *)

InitBytes == {0, WILDCARD}

InitMem ==
    /\ mem \in [Addrs -> InitBytes]
    /\ mem[0] = 0
    /\ last = NoOutcome
    /\ stored = NoStore
    /\ nops = 0

InitCall ==
    /\ hooks = << >>
    /\ nAlloc = 0
    /\ cbs = [a \in CodeAddrs |-> [t \in HookTypes |-> <<>>]]
    /\ vm = EmptyVM
    /\ stack = <<>>
    /\ native = NoNative
    /\ ev = NoEv
    /\ nreq = 0

\* CPointer operations over every initial memory; no CFunction is used.
Init == InitMem /\ InitCall

\* CFunction operations; the memory is not touched.
InitNoMem ==
    /\ mem = [a \in Addrs |-> 0]
    /\ last = NoOutcome
    /\ stored = NoStore
    /\ nops = 0

InitCalls == InitNoMem /\ InitCall

NextMem ==
    \/ \E a \in Addrs, text \in Texts, off \in Offsets : SetStringPtr(a, text, off)
    \/ \E a \in Addrs, off \in Offsets : GetStringArray(a, off)
    \/ \E a \in Addrs, text \in Texts, off \in Offsets : SetStringArray(a, text, off)
    \/ \E a \in Addrs, off \in Offsets : GetPtr(a, off)
    \/ \E a \in Addrs, p \in Addrs, off \in Offsets : SetPtr(a, p, off)
    \/ \E a \in Addrs, other \in Addrs, n \in Lens : Compare(a, other, n)
    \/ \E a \in Addrs, pat \in Patterns, n \in 0 .. (MaxLen + 1) : SearchBytes(a, pat, n)
    \/ \E a \in Addrs, dest \in Addrs, n \in Lens : Copy(a, dest, n)
    \/ \E a \in Addrs, dest \in Addrs, n \in Lens : Move(a, dest, n)
    \/ \E a \in Addrs, idx \in Offsets : GetVirtualFunc(a, idx)

NextCall ==
    \/ \E f \in Funcs, args \in ArgLists : Call(f, args)
    \/ \E f \in Funcs, args \in ArgLists : CallTrampoline(f, args)
    \/ PushArg
    \/ Invoke
    \/ Return
    \/ \E f \in Funcs, t \in HookTypes, cb \in Callables : AddHook(f, t, cb)
    \/ \E f \in Funcs, t \in HookTypes, cb \in Callables : RemoveHook(f, t, cb)

SpecMem  == Init /\ [][NextMem]_vars
SpecCall == InitCalls /\ [][NextCall]_vars

---------------------------------------------------------------------------
(* Properties of the CPointer operations (specification SpecMem)           *)

Overlaps(a, b, n) == Range(a, n) \cap Range(b, n) # {}

\* C1: CopyTo fails when the source or the destination address is 0, fails
\* when the two n-byte ranges overlap, and otherwise succeeds and leaves the
\* n bytes at dest equal to the n bytes at the source (ranges inside the
\* mapped memory).
C1_CopyContract ==
    last.op = "Copy" =>
        LET a == last.a
            d == last.b
            n == last.n
        IN  /\ (a = 0 \/ d = 0) => last.status = "ValueError"
            /\ (a # 0 /\ d # 0 /\ Overlaps(a, d, n)) => last.status = "ValueError"
            /\ (a # 0 /\ d # 0 /\ ~Overlaps(a, d, n)
                  /\ Range(a, n) \cup Range(d, n) \subseteq Mapped)
               => /\ last.status = "ok"
                  /\ \A k \in 0 .. (n - 1) : mem[d + k] = mem[a + k]

\* C2: StoreAddressOf(P, O) on a valid address A followed by Dereference(O)
\* on A returns a pointer whose address is P's address.
C2_StoreThenDereference ==
    ( /\ last.op = "GetPtr"
      /\ last.status = "ok"
      /\ stored.valid
      /\ stored.a = last.a
      /\ stored.off = last.off )
    => last.ret = stored.p

\* A pattern matches at position x when every pattern byte equals the memory
\* byte at its index or is the wildcard.
MatchesAt(m, x, pat) ==
    \A i \in 1 .. Len(pat) : pat[i] = Rd(m, x + i - 1) \/ pat[i] = WILDCARD

FirstMatch(m, a, pat, n) ==
    LET hits == {x \in a .. (a + n - Len(pat)) : MatchesAt(m, x, pat)}
    IN  IF hits = {} THEN 0 ELSE CHOOSE x \in hits : \A y \in hits : x <= y

\* C3: SearchBytes on a valid address with search_length >= the pattern's
\* length returns the first position of the range at which every pattern
\* byte equals the memory byte or is the wildcard 0x2A in the pattern, and
\* nothing (0) when there is no such position.
C3_SearchContract ==
    ( /\ last.op = "SearchBytes"
      /\ last.a # 0
      /\ last.n >= Len(last.text)
      /\ Range(last.a, last.n) \subseteq Mapped )
    => /\ last.status = "ok"
       /\ last.ret = FirstMatch(mem, last.a, last.text, last.n)

\* C4: no operation reads or writes memory at address 0.
C4_NullNeverTouched == 0 \notin last.touched

---------------------------------------------------------------------------
(* Properties of the CFunction operations (specification SpecCall)         *)

ArgCountMsg == "Number of passed arguments is not equal to the required number."

\* A step that is a new request of the operation op.
Requested(op) == nreq' = nreq + 1 /\ ev'.op = op

\* C5: a Call (directly, or delegated by CallTrampoline on a hooked
\* function) with a number of arguments different from the number of
\* parameter tags fails, makes no native call and leaves the shared VM as it
\* was, neither reset nor given an argument; with an equal count the call
\* proceeds: the VM is reset, the convention set, the activation started.
C5_ArgumentCountChecked ==
    [][ ( /\ Requested("Call") \/ (Requested("CallTrampoline") /\ Hooked(ev'.f.addr))
          /\ IsValid(ev'.f.addr) )
        => IF Len(ev'.args) # Len(ev'.f.tags)
           THEN /\ ev'.status = "ValueError"
                /\ ev'.msg = ArgCountMsg
                /\ vm' = vm
                /\ native' = native
                /\ stack' = stack
           ELSE /\ ev'.status = "ok"
                /\ vm' = [mode |-> ev'.f.conv, args |-> <<>>]
                /\ Len(stack') = Len(stack) + 1
                /\ native' = native ]_vars

\* Tags [int, pointer] called with three arguments fail, and the arguments
\* an earlier call left in the VM are still there.
C5_Witness ==
    /\ ev.op = "Call"
    /\ ev.msg = ArgCountMsg
    /\ ev.f.tags = <<"i", "p">>
    /\ Len(ev.args) = 3
    /\ vm.args # <<>>

\* C6: every callable occurs at most once in the list of a hooked address
\* and hook type.
C6_NoDuplicateCallables ==
    \A a \in CodeAddrs, t \in HookTypes :
        \A i, j \in 1 .. Len(cbs[a][t]) : i # j => cbs[a][t][i] # cbs[a][t][j]

InList(list, cb) == \E i \in 1 .. Len(list) : list[i] = cb

RECURSIVE RemoveFirst(_, _)
RemoveFirst(list, cb) ==
    IF list = <<>> THEN <<>>
    ELSE IF Head(list) = cb THEN Tail(list)
    ELSE <<Head(list)>> \o RemoveFirst(Tail(list), cb)

\* C7: RemoveHook changes nothing when the address has no hook or the
\* callable is not in the list of that hook type; otherwise it removes
\* exactly the first entry equal to the callable, and nothing else changes.
C7_RemoveHookFrame ==
    [][ (Requested("RemoveHook") /\ IsValid(ev'.f.addr))
        => LET a  == ev'.f.addr
               t  == ev'.t
               cb == ev'.cb
           IN  /\ hooks' = hooks
               /\ IF ~Hooked(a) \/ ~InList(cbs[a][t], cb)
                  THEN cbs' = cbs
                  ELSE cbs' = [cbs EXCEPT ![a][t] = RemoveFirst(@, cb)] ]_vars

\* C8: CallTrampoline on a function that is not hooked fails with "Function
\* was not hooked." and makes no native call; on a hooked function it
\* delegates to a CFunction at the hook's trampoline (not the hooked
\* address) with the same convention, parameter tags and return tag, and
\* that activation makes exactly one native call, to the trampoline, where
\* no hook callbacks are dispatched.
C8_Trampoline ==
    [][ /\ ( Requested("CallTrampoline") /\ IsValid(ev'.f.addr) /\ ~Hooked(ev'.f.addr) )
           => /\ ev'.status = "ValueError"
              /\ ev'.msg = "Function was not hooked."
              /\ native' = native
              /\ stack' = stack
              /\ vm' = vm
        /\ ( Requested("CallTrampoline") /\ Hooked(ev'.f.addr)
               /\ Len(ev'.args) = Len(ev'.f.tags) )
           => /\ ev'.status = "ok"
              /\ Len(stack') = Len(stack) + 1
              /\ stack'[Len(stack')].f =
                     CFunction(hooks[ev'.f.addr].trampoline, ev'.f.conv,
                               ev'.f.tags, ev'.f.ret)
              /\ hooks[ev'.f.addr].trampoline # ev'.f.addr
        /\ ( ev'.op = "Invoke" /\ ev'.status = "ok" /\ nreq' = nreq
               /\ stack # <<>> /\ Top.via = "CallTrampoline" )
           => /\ native'.n = native.n + 1
              /\ native'.target = hooks[Top.orig.addr].trampoline
              /\ native'.target # Top.orig.addr
              /\ ~RunsCallbacks(native'.target)
        /\ ( ev'.op = "Return" /\ nreq' = nreq
               /\ stack # <<>> /\ Top.via = "CallTrampoline" )
           => /\ native' = native
              /\ Top.phase = "native" ]_vars

\* A trampoline call on a hooked function has returned after one native
\* call, which went to the hook's trampoline.
C8_Witness ==
    /\ ev.op = "Return"
    /\ stack = <<>>
    /\ Hooked(ev.f.addr)
    /\ native.n = 1
    /\ native.target = hooks[ev.f.addr].trampoline
    /\ native.args = MarshalAll(ev.f.tags, ev.args)

\* C9: when a Call is started while another Call is in flight and both
\* reach their native targets, each target receives exactly the arguments of
\* its own call, in declared order: here, the later of the two native calls.
C9_OwnArguments ==
    native.n >= 2 => native.args = MarshalAll(native.f.tags, native.own)

\* C10: a hooked address stays hooked with the same trampoline under every
\* later operation; AddHook on it allocates no second hook, and every
\* trampoline activation targets the hook's trampoline.
C10_HookStable ==
    [][ /\ \A a \in DOMAIN hooks :
              /\ a \in DOMAIN hooks'
              /\ hooks'[a].trampoline = hooks[a].trampoline
        /\ ( Requested("AddHook") /\ Hooked(ev'.f.addr) ) => nAlloc' = nAlloc
        /\ \A k \in 1 .. Len(stack') :
              stack'[k].via = "CallTrampoline" =>
                  /\ Hooked(stack'[k].orig.addr)
                  /\ stack'[k].f.addr = hooks'[stack'[k].orig.addr].trampoline ]_vars

\* A hooked function whose two lists were emptied again is still hooked, and
\* a trampoline call on it has returned from the trampoline.
C10_Witness ==
    /\ ev.op = "Return"
    /\ Hooked(ev.f.addr)
    /\ \A t \in HookTypes : cbs[ev.f.addr][t] = <<>>
    /\ nreq = 3
    /\ native.n = 1
    /\ native.target = hooks[ev.f.addr].trampoline

=============================================================================
